---- MODULE Spec2Model ----
(***************************************************************************)
(* jwt-cli (src/src/main.rs): the claim-construction engine, the key       *)
(* resolver and the encode / decode pipelines, as a state machine.         *)
(*                                                                         *)
(* Text is modelled character by character: a string is a sequence of      *)
(* one-character strings, so that parsing, formatting and splitting are    *)
(* computed, not assumed.  The alphabets in use hold no backslash, no      *)
(* control character, no '.', no 'e'/'E' exponent inside numbers, and no   *)
(* '[' or '{'; numbers stay far below the 64-bit range.                    *)
(***************************************************************************)
EXTENDS Integers, Sequences, FiniteSets

VARIABLES
    pc,             \* position of the running process
    clock,          \* the wall clock the running process reads
    encCli,         \* command line of `jwt encode`
    decCli,         \* command line of `jwt decode`
    maybe_payloads, \* encode_token: the Vec<Option<PayloadItem>> it merges
    claims,         \* encode_token: the claim set built from it
    token,          \* encode_token: its JWTResult<String>
    keyres,         \* decode_token: the call of decoding_key_from_secret, if made
    verified,       \* decode_token: whether jsonwebtoken::decode was called
    validated,      \* decode_token: first result (verification)
    token_data,     \* decode_token: second result (unverified extraction)
    ofmt,           \* decode_token: third result (output format)
    stdout,         \* what the process has printed on standard output
    banner,         \* the error kind whose diagnostic was printed, or ""
    exit_code,      \* process exit status, -1 while running
    tsVal,          \* from_timestamp_with_name: argument `val`
    tsName,         \* from_timestamp_with_name: argument `name`
    tsNow,          \* from_timestamp_with_name: argument `now`
    tsOut,          \* from_timestamp_with_name: the returned Option<PayloadItem>
    encFormat,      \* encoding_key_from_secret: its `format`, "" before the match
    decFormat       \* decoding_key_from_secret: its `format`, "" before the match

vars == <<pc, clock, encCli, decCli, maybe_payloads, claims, token, keyres,
          verified, validated, token_data, ofmt, stdout, banner, exit_code,
          tsVal, tsName, tsNow, tsOut, encFormat, decFormat>>

encVars == <<encCli, maybe_payloads, claims, token>>

decVars == <<decCli, keyres, verified, validated, token_data, ofmt>>

tsVars == <<tsVal, tsName, tsNow, tsOut>>

fmtVars == <<encFormat, decFormat>>

(***************************************************************************)
(* Bounds                                                                  *)
(***************************************************************************)
MaxTsLen == 3

\* how many optional claim inputs one encode command line carries
MaxClaimInputs == 2

(***************************************************************************)
(* Characters and strings                                                  *)
(***************************************************************************)
DigitChars == <<"0", "1", "2", "3", "4", "5", "6", "7", "8", "9">>

Digits == {DigitChars[i] : i \in 1..10}

Letters == {"a", "b", "c", "d", "e", "f", "g", "h", "i", "j", "k", "l", "m",
            "n", "o", "p", "q", "r", "s", "t", "u", "v", "w", "x", "y", "z"}

IsDigit(c) == c \in Digits

IsLetter(c) == c \in Letters

\* the regex class \w (no underscore occurs in the alphabets)
IsWord(c) == IsDigit(c) \/ IsLetter(c)

DigitVal(c) == CHOOSE i \in 0..9 : DigitChars[i + 1] = c

AllDigits(s) == Len(s) > 0 /\ \A i \in 1..Len(s) : IsDigit(s[i])

RECURSIVE Dec(_)
Dec(s) == IF s = <<>> THEN 0
          ELSE Dec(SubSeq(s, 1, Len(s) - 1)) * 10 + DigitVal(s[Len(s)])

\* i64 / u64 ::to_string
RECURSIVE to_string(_)
to_string(n) == IF n < 0 THEN <<"-">> \o to_string(-n)
               ELSE IF n < 10 THEN <<DigitChars[n + 1]>>
               ELSE to_string(n \div 10) \o <<DigitChars[(n % 10) + 1]>>

StartsWith(s, p) == Len(p) <= Len(s) /\ SubSeq(s, 1, Len(p)) = p

\* all strings over alphabet A of length 0..n
RECURSIVE StringsUpTo(_, _)
StringsUpTo(A, n) ==
    IF n = 0 THEN {<<>>}
    ELSE LET S == StringsUpTo(A, n - 1)
         IN  S \cup {Append(s, c) : s \in {t \in S : Len(t) = n - 1}, c \in A}

RECURSIVE TrimLeft(_)
TrimLeft(s) == IF s # <<>> /\ s[1] = " " THEN TrimLeft(Tail(s)) ELSE s

RECURSIVE TrimRight(_)
TrimRight(s) == IF s # <<>> /\ s[Len(s)] = " "
                THEN TrimRight(SubSeq(s, 1, Len(s) - 1)) ELSE s

Trim(s) == TrimRight(TrimLeft(s))

(***************************************************************************)
(* Option<&str>                                                            *)
(***************************************************************************)
NoStr == [some |-> FALSE, s |-> <<>>]

SomeStr(s) == [some |-> TRUE, s |-> s]

(***************************************************************************)
(* serde_json::Value, restricted to scalars.  One record shape for all.    *)
(***************************************************************************)
VNull == [t |-> "null", n |-> 0, s |-> <<>>]

VNum(n) == [t |-> "num", n |-> n, s |-> <<>>]

\* the float -0.0, which is what serde_json makes of the text -0
VNegZero == [t |-> "float", n |-> 0, s |-> <<>>]

VStr(s) == [t |-> "str", n |-> 0, s |-> s]

VBool(b) == [t |-> "bool", n |-> IF b THEN 1 ELSE 0, s |-> <<>>]

\* the RFC 3339 text of the instant n seconds after the epoch
VIso(n) == [t |-> "iso", n |-> n, s |-> <<>>]

\* serde_json::to_string of a scalar
to_json(v) ==
    CASE v.t = "num" -> to_string(v.n)
      [] v.t = "str" -> <<"\"">> \o v.s \o <<"\"">>
      [] v.t = "bool" -> (IF v.n = 1 THEN <<"t", "r", "u", "e">>
                                     ELSE <<"f", "a", "l", "s", "e">>)
      [] v.t = "float" -> <<"-", "0", ".", "0">>
      [] OTHER -> <<"n", "u", "l", "l">>

ParseErr == [ok |-> FALSE, val |-> VNull]

ParseOk(v) == [ok |-> TRUE, val |-> v]

\* a JSON integer literal: -? (0 | [1-9][0-9]*)
IsJsonInt(t) ==
    LET d == IF t # <<>> /\ t[1] = "-" THEN Tail(t) ELSE t
    IN  AllDigits(d) /\ (Len(d) = 1 \/ d[1] # "0")

JsonIntValue(t) ==
    IF t[1] = "-"
    THEN (IF Dec(Tail(t)) = 0 THEN VNegZero ELSE VNum(-Dec(Tail(t))))
    ELSE VNum(Dec(t))

\* a JSON string literal without escapes: " chars "
IsJsonString(t) ==
    /\ Len(t) >= 2
    /\ t[1] = "\""
    /\ t[Len(t)] = "\""
    /\ \A i \in 2..(Len(t) - 1) : t[i] # "\""

\* serde_json::from_str::<Value>: surrounding whitespace is skipped, the
\* rest must be exactly one value
from_str(s) ==
    LET t == Trim(s)
    IN  IF t = <<"t", "r", "u", "e">> THEN ParseOk(VBool(TRUE))
        ELSE IF t = <<"f", "a", "l", "s", "e">> THEN ParseOk(VBool(FALSE))
        ELSE IF t = <<"n", "u", "l", "l">> THEN ParseOk(VNull)
        ELSE IF t = <<"-", "0", ".", "0">> THEN ParseOk(VNegZero)
        ELSE IF IsJsonInt(t) THEN ParseOk(JsonIntValue(t))
        ELSE IF IsJsonString(t) THEN ParseOk(VStr(SubSeq(t, 2, Len(t) - 1)))
        ELSE ParseErr

(***************************************************************************)
(* str::parse::<u64>, str::parse::<i64>                                    *)
(***************************************************************************)
IntErr == [ok |-> FALSE, n |-> 0]

IntOk(n) == [ok |-> TRUE, n |-> n]

\* an optional '+', then digits; a '-' is never accepted
parse_u64(s) ==
    LET d == IF Len(s) > 1 /\ s[1] = "+" THEN Tail(s) ELSE s
    IN  IF AllDigits(d) THEN IntOk(Dec(d)) ELSE IntErr

\* an optional '+' or '-', then digits
parse_i64(s) ==
    LET signed == Len(s) > 1 /\ s[1] \in {"+", "-"}
        d == IF signed THEN Tail(s) ELSE s
    IN  IF AllDigits(d)
        THEN IntOk(IF signed /\ s[1] = "-" THEN -Dec(d) ELSE Dec(d))
        ELSE IntErr

(***************************************************************************)
(* parse_duration::parse                                                   *)
(***************************************************************************)
\* [^\w-]
IsPad(c) == ~IsWord(c) /\ c # "-"

RECURSIVE StripPadLeft(_)
StripPadLeft(s) == IF s # <<>> /\ IsPad(s[1]) THEN StripPadLeft(Tail(s)) ELSE s

RECURSIVE StripPadRight(_)
StripPadRight(s) == IF s # <<>> /\ IsPad(s[Len(s)])
                    THEN StripPadRight(SubSeq(s, 1, Len(s) - 1)) ELSE s

\* NUMBER_RE  ^[^\w-]*(-?\d+)[^\w-]*$ : the signed digits, when it matches
NumberRe(s) ==
    LET core == StripPadRight(StripPadLeft(s))
        neg == core # <<>> /\ core[1] = "-"
        d == IF neg THEN Tail(core) ELSE core
    IN  IF AllDigits(d) THEN IntOk(IF neg THEN -Dec(d) ELSE Dec(d)) ELSE IntErr

\* first index >= i at which -?\d+ can start, or 0
MatchStart(s, i) ==
    LET starts == {j \in i..Len(s) :
                      \/ IsDigit(s[j])
                      \/ (s[j] = "-" /\ j < Len(s) /\ IsDigit(s[j + 1]))}
    IN  IF starts = {} THEN 0 ELSE CHOOSE j \in starts : \A k \in starts : j <= k

\* last index of the run of characters satisfying the class that starts at i
\* (i - 1 when s[i] is not in the class)
RunEndDigit(s, i) ==
    LET stops == {j \in i..(Len(s) + 1) : j = Len(s) + 1 \/ ~IsDigit(s[j])}
    IN  (CHOOSE j \in stops : \A k \in stops : j <= k) - 1

RunEndJunk(s, i) ==
    LET stops == {j \in i..(Len(s) + 1) : j = Len(s) + 1 \/ IsWord(s[j])}
    IN  (CHOOSE j \in stops : \A k \in stops : j <= k) - 1

RunEndLetter(s, i) ==
    LET stops == {j \in i..(Len(s) + 1) : j = Len(s) + 1 \/ ~IsLetter(s[j])}
    IN  (CHOOSE j \in stops : \A k \in stops : j <= k) - 1

IsPrefixOf(u, w) == Len(u) <= Len(w) /\ SubSeq(w, 1, Len(u)) = u

\* parse_unit, for the units the alphabets can spell: seconds per unit, or 0
\* for a word that is no unit
UnitSeconds(u) ==
    IF u[1] = "s" /\ (IsPrefixOf(u, <<"s", "e", "c", "o", "n", "d", "s">>)
                      \/ IsPrefixOf(u, <<"s", "e", "c", "s">>))
    THEN 1
    ELSE IF u[1] = "m" /\ (IsPrefixOf(u, <<"m", "i", "n", "u", "t", "e", "s">>)
                           \/ IsPrefixOf(u, <<"m", "i", "n", "s">>))
    THEN 60
    ELSE 0

\* the loop over DURATION_RE.captures_iter: every match is a signed integer
\* followed, after non-word junk, by a unit word; a match without a unit or
\* with an unknown unit is an error.  acc is the sum in seconds so far.
RECURSIVE DurationScan(_, _, _)
DurationScan(s, i, acc) ==
    LET m == MatchStart(s, i)
    IN  IF m = 0 THEN IntOk(acc)
        ELSE LET neg == s[m] = "-"
                 d1 == IF neg THEN m + 1 ELSE m
                 d2 == RunEndDigit(s, d1)
                 int == IF neg THEN -Dec(SubSeq(s, d1, d2)) ELSE Dec(SubSeq(s, d1, d2))
                 u1 == RunEndJunk(s, d2 + 1) + 1
                 u2 == RunEndLetter(s, u1)
             IN  IF u2 < u1 THEN IntErr                            \* NoUnitFound
                 ELSE IF UnitSeconds(SubSeq(s, u1, u2)) = 0 THEN IntErr \* UnknownUnit
                 ELSE DurationScan(s, u2 + 1,
                                   acc + int * UnitSeconds(SubSeq(s, u1, u2)))

\* parse_duration::parse(input).map(|d| d.as_secs())
parse_duration(s) ==
    IF NumberRe(s).ok
    THEN (IF NumberRe(s).n >= 0 THEN IntOk(NumberRe(s).n) ELSE IntErr)
    ELSE IF MatchStart(s, 1) # 0
    THEN LET r == DurationScan(s, 1, 0)
         IN  IF r.ok /\ r.n >= 0 THEN r ELSE IntErr
    ELSE IntErr

(***************************************************************************)
(* PayloadItem                                                             *)
(***************************************************************************)
NoItem == [some |-> FALSE, name |-> <<>>, value |-> VNull]

SomeItem(name, value) == [some |-> TRUE, name |-> name, value |-> value]

\* PayloadItem::from_string_with_name
from_string_with_name(val, name) ==
    IF val.some
    THEN IF from_str(val.s).ok
         THEN SomeItem(name, from_str(val.s).val)
         ELSE IF from_str(<<"\"">> \o val.s \o <<"\"">>).ok
              THEN SomeItem(name, from_str(<<"\"">> \o val.s \o <<"\"">>).val)
              ELSE NoItem
    ELSE NoItem

\* PayloadItem::from_timestamp_with_name
from_timestamp_with_name(val, name, now) ==
    IF val.some /\ ~parse_u64(val.s).ok /\ parse_duration(val.s).ok
    THEN from_string_with_name(SomeStr(to_string(parse_duration(val.s).n + now)), name)
    ELSE from_string_with_name(val, name)

\* is_timestamp_or_duration (the clap validator of --exp and --nbf)
is_timestamp_or_duration(s) == parse_i64(s).ok \/ parse_duration(s).ok

(***************************************************************************)
(* Claim names                                                             *)
(***************************************************************************)
\* default_value("+30 min") of --exp
DefaultExpires == <<"+", "3", "0", " ", "m", "i", "n">>

IAT == <<"i", "a", "t">>

EXP == <<"e", "x", "p">>

NBF == <<"n", "b", "f">>

ISS == <<"i", "s", "s">>

SUB == <<"s", "u", "b">>

AUD == <<"a", "u", "d">>

JTI == <<"j", "t", "i">>

(***************************************************************************)
(* key=value arguments                                                     *)
(***************************************************************************)
\* str::split('='), collected: the pieces between the separators
RECURSIVE Split(_, _)
Split(s, sep) ==
    LET hits == {i \in 1..Len(s) : s[i] = sep}
    IN  IF hits = {} THEN <<s>>
        ELSE LET i == CHOOSE j \in hits : \A k \in hits : j <= k
             IN  <<SubSeq(s, 1, i - 1)>> \o Split(SubSeq(s, i + 1, Len(s)), sep)

\* is_payload_item (the clap validator of --payload)
is_payload_item(p) == Len(Split(p, "=")) = 2

\* PayloadItem::split_payload_item: split[0], split[1], then unwrap() of the
\* parsed item; `panic` is the index out of bounds or the unwrap of None
split_payload_item(p) ==
    LET split == Split(p, "=")
    IN  IF Len(split) < 2 THEN [panic |-> TRUE, item |-> NoItem]
        ELSE LET payload_item == from_string_with_name(SomeStr(split[2]), split[1])
             IN  [panic |-> ~payload_item.some, item |-> payload_item]

(***************************************************************************)
(* Payload: BTreeMap<String, Value>                                        *)
(***************************************************************************)
EmptyMap == [k \in {} |-> VNull]

\* a map insert that keeps the value already held under the key
InsertIfAbsent(m, k, v) ==
    [x \in (DOMAIN m) \cup {k} |-> IF x \in DOMAIN m THEN m[x] ELSE v]

\* BTreeMap::insert: the new value replaces the one held under the key
Insert(m, k, v) == [x \in (DOMAIN m) \cup {k} |-> IF x = k THEN v ELSE m[x]]

\* Payload::from_payloads: insert the items in sequence order
RECURSIVE from_payloads(_)
from_payloads(payloads) ==
    IF payloads = <<>> THEN EmptyMap
    ELSE LET last == payloads[Len(payloads)]
         IN  Insert(from_payloads(SubSeq(payloads, 1, Len(payloads) - 1)),
                    last.name, last.value)

\* Iterator::flatten over Vec<Option<PayloadItem>>
IsSome(item) == item.some

Flatten(items) == SelectSeq(items, IsSome)

(***************************************************************************)
(* The bulk JSON argument: the text is either no JSON object (obj = FALSE) *)
(* or an object whose members, in textual order, are `members`.            *)
(***************************************************************************)
NoJson == [some |-> FALSE, obj |-> FALSE, members |-> <<>>]

JsonText(obj, members) == [some |-> TRUE, obj |-> obj, members |-> members]

\* from_str of an object followed by into_iter: one entry per distinct key,
\* holding the value of the key's last occurrence in the text
RECURSIVE ObjectEntries(_)
ObjectEntries(members) ==
    IF members = <<>> THEN <<>>
    ELSE LET rest == ObjectEntries(Tail(members))
             again == \E i \in 1..Len(rest) : rest[i].name = members[1].name
         IN  IF again THEN rest
             ELSE <<SomeItem(members[1].name, members[1].value)>> \o rest

(***************************************************************************)
(* Algorithms                                                              *)
(***************************************************************************)
HmacAlgs == {"HS256", "HS384", "HS512"}

RsaAlgs == {"RS256", "RS384", "RS512", "PS256", "PS384", "PS512"}

EcAlgs == {"ES256", "ES384"}

\* enum SupportedAlgorithms
SupportedAlgorithms == HmacAlgs \cup RsaAlgs \cup EcAlgs

(***************************************************************************)
(* Key material.  The bytes of a secret are abstracted by what the parsers *)
(* make of them:                                                           *)
(*   empty  no bytes                                                       *)
(*   text   UTF-8 text that is neither PEM nor JSON (id tells texts apart) *)
(*   pem    the PEM encoding of key `id` of family `fam` (private or not)  *)
(*   der    its DER encoding (not UTF-8)                                   *)
(*   jwk    the JSON text of one JWK for that key, with an optional kid    *)
(*   jwks   the JSON text of an object with a `keys` array of JWKs         *)
(*   json   JSON text that is neither (an object without `keys`, no JWK)   *)
(***************************************************************************)
Doc(kind, id, fam, priv, kid, entries) ==
    [kind |-> kind, id |-> id, fam |-> fam, priv |-> priv, kid |-> kid,
     entries |-> entries]

EmptyDoc == Doc("empty", "", "none", FALSE, NoStr, <<>>)

TextDoc(id) == Doc("text", id, "none", FALSE, NoStr, <<>>)

PemDoc(fam, id, priv) == Doc("pem", id, fam, priv, NoStr, <<>>)

DerDoc(fam, id, priv) == Doc("der", id, fam, priv, NoStr, <<>>)

JwkDoc(fam, id, priv, kid) == Doc("jwk", id, fam, priv, kid, <<>>)

JwksDoc(entries) == Doc("jwks", "", "none", FALSE, NoStr, entries)

JsonDoc == Doc("json", "", "none", FALSE, NoStr, <<>>)

\* str::from_utf8(&secret) succeeds
IsUtf8(doc) == doc.kind # "der"

\* serde_json::from_str::<Value>(text) succeeds
IsJson(doc) == doc.kind \in {"jwk", "jwks", "json"}

\* str::parse::<JsonWebKey>() succeeds
IsJwk(doc) == doc.kind = "jwk"

\* JsonWebKey::key.to_pem()
to_pem(jwk) == PemDoc(jwk.fam, jwk.id, jwk.priv)

\* the secret reference given with --secret: a literal, or '@' and a path
\* with the extension `ext` ("" when the file name has none)
SecretRef(file, ext, readable, doc) ==
    [file |-> file, ext |-> ext, readable |-> readable, doc |-> doc]

Literal(doc) == SecretRef(FALSE, "", TRUE, doc)

FileRef(ext, doc) == SecretRef(TRUE, ext, TRUE, doc)

\* a test that takes every secret for a key
NeverEmptySecret(secret) == FALSE

\* secret_string.is_empty()
IsEmptySecret(secret) == ~secret.file /\ secret.doc.kind = "empty"

\* Option<&str> of --keyformat
NoFmt == [some |-> FALSE, s |-> ""]

SomeFmt(f) == [some |-> TRUE, s |-> f]

(***************************************************************************)
(* JWTResult<T>: Ok(val) or Err(kind), and whether the call panicked       *)
(***************************************************************************)
NoKey == [family |-> "none", der |-> EmptyDoc]

KeyOk(k) == [panic |-> FALSE, ok |-> TRUE, err |-> "", key |-> k]

KeyErr(e) == [panic |-> FALSE, ok |-> FALSE, err |-> e, key |-> NoKey]

KeyPanic == [panic |-> TRUE, ok |-> FALSE, err |-> "panic", key |-> NoKey]

\* EncodingKey / DecodingKey ::from_secret: the bytes as they are
from_secret(doc) == KeyOk([family |-> "hmac", der |-> doc])

\* ::from_rsa_pem: the DER content of an RSA key's PEM text
from_rsa_pem(doc) ==
    IF doc.kind = "pem" /\ doc.fam = "rsa"
    THEN KeyOk([family |-> "rsa", der |-> DerDoc("rsa", doc.id, doc.priv)])
    ELSE KeyErr("InvalidKeyFormat")

\* ::from_ec_pem
from_ec_pem(doc) ==
    IF doc.kind = "pem" /\ doc.fam = "ec"
    THEN KeyOk([family |-> "ec", der |-> DerDoc("ec", doc.id, doc.priv)])
    ELSE KeyErr("InvalidKeyFormat")

\* ::from_rsa_der, ::from_ec_der: any bytes are taken as they are
from_rsa_der(doc) == KeyOk([family |-> "rsa", der |-> doc])

from_ec_der(doc) == KeyOk([family |-> "ec", der |-> doc])

(***************************************************************************)
(* Key resolution                                                          *)
(***************************************************************************)
\* encoding_key_from_secret: let format = match formatopt
EncodingKeyFormatOf(secret, formatopt) ==
    IF ~formatopt.some
    THEN IF secret.file
         THEN CASE secret.ext \in {"pem", "cer", "key"} -> "PEM"
                [] secret.ext = "der" -> "DER"
                [] secret.ext = "jwk" -> "JWK"
                [] OTHER -> "PEM"
         ELSE "PEM"
    ELSE CASE formatopt.s = "pem" -> "PEM"
           [] formatopt.s = "der" -> "DER"
           [] formatopt.s = "jwk" -> "JWK"
           [] OTHER -> "PEM"

\* a choice that lets the file extension win over the --keyformat flag
KeyFormatByExtensionFirst(secret, formatopt) ==
    IF secret.file /\ secret.ext \in {"pem", "cer", "key", "der", "jwk"}
    THEN EncodingKeyFormatOf(secret, NoFmt)
    ELSE EncodingKeyFormatOf(secret, formatopt)

\* decoding_key_from_secret: let format = match formatopt
KeyFormatOf(secret, formatopt) ==
    IF ~formatopt.some
    THEN IF secret.file
         THEN CASE secret.ext \in {"pem", "cer", "key"} -> "PEM"
                [] secret.ext = "der" -> "DER"
                [] secret.ext = "jwk" -> "JWK"
                [] OTHER -> "PEM"
         ELSE "PEM"
    ELSE CASE formatopt.s = "pem" -> "PEM"
           [] formatopt.s = "der" -> "DER"
           [] formatopt.s = "jwk" -> "JWK"
           [] OTHER -> "PEM"

\* the JWK branch of key construction: parse the text as one JWK (unwrap),
\* export it to PEM, read the PEM as a key of the family
KeyFromJwkText(hasText, text, fam) ==
    IF ~hasText THEN KeyPanic              \* selected_key.unwrap() on None
    ELSE IF ~IsJwk(text) THEN KeyPanic     \* parse().unwrap() on Err
    ELSE IF fam = "rsa" THEN from_rsa_pem(to_pem(text))
    ELSE from_ec_pem(to_pem(text))

\* encoding_key_from_secret
encoding_key_from_secret(alg, secret, formatopt) ==
    LET format == EncodingKeyFormatOf(secret, formatopt)
    IN  IF secret.file /\ ~secret.readable THEN KeyPanic      \* slurp_file
        ELSE IF alg \in HmacAlgs THEN from_secret(secret.doc)
        ELSE IF alg \in RsaAlgs
        THEN CASE format = "PEM" -> from_rsa_pem(secret.doc)
               [] format = "DER" -> from_rsa_der(secret.doc)
               [] OTHER -> KeyFromJwkText(IsUtf8(secret.doc), secret.doc, "rsa")
        ELSE CASE format = "PEM" -> from_ec_pem(secret.doc)
               [] format = "DER" -> from_ec_der(secret.doc)
               [] OTHER -> KeyFromJwkText(IsUtf8(secret.doc), secret.doc, "ec")

\* a search that keeps the last entry whose kid is the string kid
LastKid(entries, kid) ==
    LET hits == {i \in 1..Len(entries) :
                    entries[i].kid.some /\ entries[i].kid.s = kid}
    IN  IF hits = {} THEN 0 ELSE CHOOSE i \in hits : \A j \in hits : i >= j

\* ar.iter().find(..): index of the first entry whose kid is the string kid
FirstKid(entries, kid) ==
    LET hits == {i \in 1..Len(entries) :
                    entries[i].kid.some /\ entries[i].kid.s = kid}
    IN  IF hits = {} THEN 0 ELSE CHOOSE i \in hits : \A j \in hits : i <= j

\* the `selected_key` block of decoding_key_from_secret:
\*   ret   the function returns here with `res`
\*   some  selected_key is Some(text)
SelectedKey(format, secret, kid) ==
    LET doc == secret.doc
        none == [ret |-> FALSE, res |-> KeyOk(NoKey), some |-> FALSE, text |-> EmptyDoc]
    IN  IF format = "JWK" /\ kid.some
        THEN IF ~IsUtf8(doc) THEN [none EXCEPT !.ret = TRUE, !.res = KeyPanic]
             ELSE IF ~IsJson(doc) THEN [none EXCEPT !.ret = TRUE, !.res = KeyErr("Json")]
             ELSE IF doc.kind = "jwks"
             THEN IF FirstKid(doc.entries, kid.s) # 0
                  THEN [none EXCEPT !.some = TRUE,
                                    !.text = doc.entries[FirstKid(doc.entries, kid.s)]]
                  ELSE [none EXCEPT !.ret = TRUE, !.res = KeyErr("InvalidSignature")]
             ELSE [none EXCEPT !.some = TRUE, !.text = doc]
        ELSE none

\* decoding_key_from_secret
decoding_key_from_secret(alg, secret, formatopt, kid) ==
    LET format == KeyFormatOf(secret, formatopt)
        selected_key == SelectedKey(format, secret, kid)
    IN  IF secret.file /\ ~secret.readable THEN KeyPanic      \* slurp_file
        ELSE IF selected_key.ret THEN selected_key.res
        ELSE IF alg \in HmacAlgs THEN from_secret(secret.doc)
        ELSE IF alg \in RsaAlgs
        THEN CASE format = "PEM" -> from_rsa_pem(secret.doc)
               [] format = "DER" -> from_rsa_der(secret.doc)
               [] OTHER -> KeyFromJwkText(selected_key.some, selected_key.text, "rsa")
        ELSE CASE format = "PEM" -> from_ec_pem(secret.doc)
               [] format = "DER" -> from_ec_der(secret.doc)
               [] OTHER -> KeyFromJwkText(selected_key.some, selected_key.text, "ec")

(***************************************************************************)
(* The jsonwebtoken collaborator: tokens, signing, verification            *)
(***************************************************************************)
\* fn create_header
create_header(alg, kid) == [alg |-> alg, kid |-> kid]

NoHeader == [alg |-> "", kid |-> NoStr]

\* a signature is determined by the algorithm, the key that can check it
\* (the secret bytes for HMAC, the public key otherwise) and the message
Signature(alg, checker, header, payload) ==
    [alg |-> alg, checker |-> checker, header |-> header, payload |-> payload]

GarbageSignature == Signature("", EmptyDoc, NoHeader, EmptyMap)

\* the token text header.payload.signature; wf = FALSE stands for any text
\* that is not three base64 parts holding a JSON header and a JSON object
Token(header, payload, sig) ==
    [wf |-> TRUE, header |-> header, payload |-> payload, sig |-> sig]

MalformedToken ==
    [wf |-> FALSE, header |-> NoHeader, payload |-> EmptyMap, sig |-> GarbageSignature]

\* the payload part: every claim serialized to JSON text
SerializeClaims(cs) == [k \in DOMAIN cs |-> to_json(cs[k])]

\* the payload part read back into a map of values
DeserializeClaims(payload) == [k \in DOMAIN payload |-> from_str(payload[k]).val]

TokenOk(t) == [ok |-> TRUE, err |-> "", token |-> t]

TokenErr(e) == [ok |-> FALSE, err |-> e, token |-> MalformedToken]

\* crypto::sign, then the three parts joined
encode(header, cs, key) ==
    LET payload == SerializeClaims(cs)
        alg == header.alg
    IN  IF alg \in HmacAlgs
        THEN TokenOk(Token(header, payload, Signature(alg, key.der, header, payload)))
        ELSE IF alg \in RsaAlgs
        THEN IF key.der.kind = "der" /\ key.der.fam = "rsa" /\ key.der.priv
             THEN TokenOk(Token(header, payload,
                      Signature(alg, DerDoc("rsa", key.der.id, FALSE), header, payload)))
             ELSE TokenErr("InvalidRsaKey")
        ELSE IF key.der.kind = "der" /\ key.der.fam = "ec" /\ key.der.priv
             THEN TokenOk(Token(header, payload,
                      Signature(alg, DerDoc("ec", key.der.id, FALSE), header, payload)))
             ELSE TokenErr("InvalidEcdsaKey")

\* TokenData<Payload>
TokenData(header, cs) == [header |-> header, claims |-> cs]

NoTokenData == TokenData(NoHeader, EmptyMap)

DataOk(d) == [ok |-> TRUE, err |-> "", data |-> d]

DataErr(e) == [ok |-> FALSE, err |-> e, data |-> NoTokenData]

\* jsonwebtoken::dangerous_insecure_decode: the header and the claims of
\* the text, the signature part unread
dangerous_insecure_decode(jwt) ==
    IF jwt.wf THEN DataOk(TokenData(jwt.header, DeserializeClaims(jwt.payload)))
    ELSE DataErr("InvalidToken")

\* struct Validation, as decode_token fills it
Validation(leeway, algorithms, validate_exp) ==
    [leeway |-> leeway, algorithms |-> algorithms, validate_exp |-> validate_exp]

\* crypto::verify: the signature is the one over this message that the key checks
verify(sig, jwt, key, alg) ==
    /\ sig = Signature(alg, key.der, jwt.header, jwt.payload)
    /\ (alg \in HmacAlgs \/ (key.der.kind = "der" /\ ~key.der.priv))

\* validation::validate, for the checks Validation::default() switches on
\* plus validate_exp
validate(cs, validation, now) ==
    IF validation.validate_exp
    THEN IF EXP \in DOMAIN cs
         THEN IF cs[EXP].t # "num" \/ cs[EXP].n < 0 THEN "Json"
              ELSE IF cs[EXP].n < now - validation.leeway THEN "ExpiredSignature"
              ELSE ""
         ELSE "ExpiredSignature"
    ELSE ""

\* jsonwebtoken::decode at clock reading `now`
decode(jwt, key, validation, now) ==
    IF ~jwt.wf THEN DataErr("InvalidToken")
    ELSE IF jwt.header.alg \notin validation.algorithms THEN DataErr("InvalidAlgorithm")
    ELSE IF ~verify(jwt.sig, jwt, key, jwt.header.alg) THEN DataErr("InvalidSignature")
    ELSE IF validate(DeserializeClaims(jwt.payload), validation, now) # ""
    THEN DataErr(validate(DeserializeClaims(jwt.payload), validation, now))
    ELSE DataOk(TokenData(jwt.header, DeserializeClaims(jwt.payload)))

\* Payload::convert_timestamps
convert_timestamps(cs) ==
    [k \in DOMAIN cs |->
        IF k \in {IAT, NBF, EXP} /\ cs[k].t = "num" THEN VIso(cs[k].n)
        ELSE cs[k]]

(***************************************************************************)
(* Command lines                                                           *)
(***************************************************************************)
\* leeway: 1000 in decode_token's Validation
Leeway == 1000

EncodeArgs(algorithm, kid, json, payload, expires, issuer, subject, audience, jwt_id, not_before, no_iat, secret, keyformat) ==
    [algorithm |-> algorithm, kid |-> kid, json |-> json, payload |-> payload,
     expires |-> expires, issuer |-> issuer, subject |-> subject,
     audience |-> audience, jwt_id |-> jwt_id, not_before |-> not_before,
     no_iat |-> no_iat, secret |-> secret, keyformat |-> keyformat]

NoEncodeArgs ==
    EncodeArgs("HS256", NoStr, NoJson, <<>>, NoStr, NoStr, NoStr, NoStr, NoStr,
               NoStr, FALSE, Literal(EmptyDoc), NoFmt)

DecodeArgs(jwt, algorithm, iso_dates, secret, json, ignore_exp, keyformat) ==
    [jwt |-> jwt, algorithm |-> algorithm, iso_dates |-> iso_dates,
     secret |-> secret, json |-> json, ignore_exp |-> ignore_exp,
     keyformat |-> keyformat]

NoDecodeArgs ==
    DecodeArgs(MalformedToken, "HS256", FALSE, Literal(EmptyDoc), FALSE, FALSE, NoFmt)

\* clap: matches.value_of("expires"), with default_value("+30 min")
value_of_expires(cli) ==
    IF cli.expires.some THEN cli.expires ELSE SomeStr(DefaultExpires)

\* clap: matches.occurrences_of("expires"): a default is no occurrence
occurrences_of_expires(cli) == IF cli.expires.some THEN 1 ELSE 0

\* clap's validators on the encode arguments
ValidEncodeArgs(cli) ==
    /\ \A i \in 1..Len(cli.payload) : is_payload_item(cli.payload[i])
    /\ is_timestamp_or_duration(value_of_expires(cli).s)
    /\ cli.not_before.some => is_timestamp_or_duration(cli.not_before.s)

(***************************************************************************)
(* Process state                                                           *)
(***************************************************************************)
NoKeyCall == [called |-> FALSE, res |-> KeyOk(NoKey)]

KeyCall(res) == [called |-> TRUE, res |-> res]

NoOutput ==
    [jwt |-> FALSE, text |-> MalformedToken, shown |-> FALSE, fmt |-> "Text",
     header |-> NoHeader, claims |-> EmptyMap]

NoEncodeState ==
    /\ maybe_payloads = <<>>
    /\ claims = EmptyMap
    /\ token = TokenErr("")

NoDecodeState ==
    /\ keyres = NoKeyCall
    /\ verified = FALSE
    /\ validated = DataErr("")
    /\ token_data = DataErr("")
    /\ ofmt = "Text"

NoTsState ==
    /\ tsVal = NoStr
    /\ tsName = EXP
    /\ tsNow = 0
    /\ tsOut = NoItem

NoKeyFormatState ==
    /\ encFormat = ""
    /\ decFormat = ""

NoProcessOutput ==
    /\ stdout = NoOutput
    /\ banner = ""
    /\ exit_code = -1

(***************************************************************************)
(* jwt encode                                                              *)
(***************************************************************************)
\* clap rejects the command line: usage error, exit status 1
UsageError ==
    /\ pc = "enc_main"
    /\ ~ValidEncodeArgs(encCli)
    /\ pc' = "enc_usage"
    /\ exit_code' = 1
    /\ UNCHANGED <<clock, encVars, decVars, stdout, banner, tsVars, fmtVars>>

\* the items of --payload, each through PayloadItem::from_string
CustomPayloads(cli) == [i \in 1..Len(cli.payload) |-> split_payload_item(cli.payload[i])]

\* the items of the bulk JSON object
CustomPayload(cli) == IF cli.json.some THEN ObjectEntries(cli.json.members) ELSE <<>>

\* encode_token panics before the claim set is built
PanicsBuilding(cli) ==
    \/ \E i \in 1..Len(cli.payload) : CustomPayloads(cli)[i].panic
    \/ (cli.json.some /\ ~cli.json.obj)

\* let expires = ...
Expires(cli, now) ==
    IF occurrences_of_expires(cli) = 0 THEN NoItem
    ELSE from_timestamp_with_name(value_of_expires(cli), EXP, now)

\* an issued_at that does not look at --no-iat
IssuedAtAlways(cli, now) ==
    from_timestamp_with_name(SomeStr(to_string(now)), IAT, now)

\* let issued_at = ...
IssuedAt(cli, now) ==
    IF cli.no_iat THEN NoItem
    ELSE from_timestamp_with_name(SomeStr(to_string(now)), IAT, now)

\* the vec! of the seven standard items
StandardPayloads(cli, now) ==
    <<IssuedAt(cli, now),
      Expires(cli, now),
      from_string_with_name(cli.issuer, ISS),
      from_string_with_name(cli.subject, SUB),
      from_string_with_name(cli.audience, AUD),
      from_string_with_name(cli.jwt_id, JTI),
      from_timestamp_with_name(cli.not_before, NBF, now)>>

\* maybe_payloads after the two append calls
MaybePayloads(cli, now) ==
    StandardPayloads(cli, now)
        \o [i \in 1..Len(cli.payload) |-> CustomPayloads(cli)[i].item]
        \o CustomPayload(cli)

\* encode_token
EncodeToken ==
    /\ pc = "enc_main"
    /\ ValidEncodeArgs(encCli)
    /\ IF PanicsBuilding(encCli)
       THEN /\ pc' = "enc_panic"
            /\ exit_code' = 101
            /\ UNCHANGED <<maybe_payloads, claims, token, encFormat>>
       ELSE LET header == create_header(encCli.algorithm, encCli.kid)
                built == from_payloads(Flatten(MaybePayloads(encCli, clock)))
                key == encoding_key_from_secret(encCli.algorithm, encCli.secret,
                                                encCli.keyformat)
            IN  /\ maybe_payloads' = MaybePayloads(encCli, clock)
                /\ claims' = built
                /\ encFormat' = IF encCli.secret.file /\ ~encCli.secret.readable
                                THEN ""
                                ELSE EncodingKeyFormatOf(encCli.secret, encCli.keyformat)
                /\ IF key.panic
                   THEN /\ pc' = "enc_panic"
                        /\ exit_code' = 101
                        /\ UNCHANGED token
                   ELSE /\ pc' = "enc_print"
                        /\ token' = IF key.ok THEN encode(header, built, key.key)
                                    ELSE TokenErr(key.err)
                        /\ UNCHANGED exit_code
    /\ UNCHANGED <<clock, encCli, decVars, stdout, banner, tsVars, decFormat>>

\* print_encoded_token
PrintEncodedToken ==
    /\ pc = "enc_print"
    /\ IF token.ok
       THEN /\ stdout' = [stdout EXCEPT !.jwt = TRUE, !.text = token.token]
            /\ exit_code' = 0
            /\ UNCHANGED banner
       ELSE /\ banner' = token.err
            /\ exit_code' = 1
            /\ UNCHANGED stdout
    /\ pc' = "enc_exit"
    /\ UNCHANGED <<clock, encVars, decVars, tsVars, fmtVars>>

(***************************************************************************)
(* jwt decode                                                              *)
(***************************************************************************)
\* a validator that accepts a token signed with any algorithm
SecretValidatorAnyAlgorithm(cli) ==
    Validation(Leeway, SupportedAlgorithms, ~cli.ignore_exp)

\* a validator without leeway
SecretValidatorNoLeeway(cli) == Validation(0, {cli.algorithm}, ~cli.ignore_exp)

\* let secret_validator = Validation { .. }
SecretValidator(cli) == Validation(Leeway, {cli.algorithm}, ~cli.ignore_exp)

\* let token_data = dangerous_insecure_decode(..).map(..)
UnverifiedData(cli) ==
    LET r == dangerous_insecure_decode(cli.jwt)
    IN  IF r.ok /\ cli.iso_dates
        THEN DataOk(TokenData(r.data.header, convert_timestamps(r.data.claims)))
        ELSE r

\* let kid = ...
HeaderKid(data) == IF data.ok THEN data.data.header.kid ELSE NoStr

\* decode_token
DecodeToken ==
    /\ pc = "dec_main"
    /\ LET cli == decCli
           secret_validator == SecretValidator(cli)
           data == UnverifiedData(cli)
           key == decoding_key_from_secret(cli.algorithm, cli.secret,
                                           cli.keyformat, HeaderKid(data))
       IN  IF IsEmptySecret(cli.secret)
           THEN /\ validated' = dangerous_insecure_decode(cli.jwt)
                /\ token_data' = data
                /\ ofmt' = IF cli.json THEN "Json" ELSE "Text"
                /\ pc' = "dec_print"
                /\ UNCHANGED <<keyres, verified, exit_code, decFormat>>
           ELSE /\ keyres' = KeyCall(key)
                /\ decFormat' = IF cli.secret.file /\ ~cli.secret.readable
                                THEN ""
                                ELSE KeyFormatOf(cli.secret, cli.keyformat)
                /\ IF key.panic
                   THEN /\ pc' = "dec_panic"
                        /\ exit_code' = 101
                        /\ UNCHANGED <<verified, validated, token_data, ofmt>>
                   ELSE /\ pc' = "dec_print"
                        /\ token_data' = data
                        /\ ofmt' = IF cli.json THEN "Json" ELSE "Text"
                        /\ verified' = key.ok
                        /\ validated' = IF key.ok
                                        THEN decode(cli.jwt, key.key, secret_validator, clock)
                                        ELSE DataErr(key.err)
                        /\ UNCHANGED exit_code
    /\ UNCHANGED <<clock, encVars, decCli, stdout, banner, tsVars, encFormat>>

\* a printer that shows the claims of verified tokens only
PrintVerifiedOnly ==
    /\ pc = "dec_print"
    /\ banner' = IF validated.ok THEN "" ELSE validated.err
    /\ IF token_data.ok /\ validated.ok
       THEN /\ stdout' = [stdout EXCEPT !.shown = TRUE, !.fmt = ofmt,
                                        !.header = token_data.data.header,
                                        !.claims = token_data.data.claims]
            /\ exit_code' = 0
       ELSE /\ exit_code' = 1
            /\ UNCHANGED stdout
    /\ pc' = "dec_exit"
    /\ UNCHANGED <<clock, encVars, decVars, tsVars, fmtVars>>

\* a printer that shows nothing once key resolution has failed
PrintNothingOnKeyError ==
    /\ pc = "dec_print"
    /\ banner' = IF validated.ok THEN "" ELSE validated.err
    /\ IF token_data.ok /\ ~(keyres.called /\ ~keyres.res.ok)
       THEN /\ stdout' = [stdout EXCEPT !.shown = TRUE, !.fmt = ofmt,
                                        !.header = token_data.data.header,
                                        !.claims = token_data.data.claims]
            /\ exit_code' = IF validated.ok THEN 0 ELSE 1
       ELSE /\ exit_code' = 1
            /\ UNCHANGED stdout
    /\ pc' = "dec_exit"
    /\ UNCHANGED <<clock, encVars, decVars, tsVars, fmtVars>>

\* print_decoded_token
PrintDecodedToken ==
    /\ pc = "dec_print"
    /\ banner' = IF validated.ok THEN "" ELSE validated.err
    /\ IF token_data.ok
       THEN /\ stdout' = [stdout EXCEPT !.shown = TRUE, !.fmt = ofmt,
                                        !.header = token_data.data.header,
                                        !.claims = token_data.data.claims]
            /\ exit_code' = IF validated.ok THEN 0 ELSE 1
       ELSE /\ exit_code' = 1
            /\ UNCHANGED stdout
    /\ pc' = "dec_exit"
    /\ UNCHANGED <<clock, encVars, decVars, tsVars, fmtVars>>

(***************************************************************************)
(* jwt encode on its own: the inputs                                       *)
(***************************************************************************)
EncodeClock == 5000

\* values of --iss, --sub, --aud, --jti and of key=value arguments: the
\* empty text, a number, a word, and a text with a stray quote
ValueStrings == {<<>>, <<"7">>, <<"x">>, <<"x", "\"">>}

PayloadNames == {<<"a">>, IAT, ISS}

PayloadArgs ==
    {n \o <<"=">> \o v : n \in PayloadNames, v \in ValueStrings}
        \cup {<<"a">>, <<"a", "=", "7", "=", "7">>}

JsonMembers ==
    {[name |-> n, value |-> v] : n \in {<<"a">>, IAT}, v \in {VNum(1), VStr(<<"y">>)}}

\* the bulk JSON argument with n members
JsonArgs(n) ==
    IF n = 0 THEN {NoJson, JsonText(FALSE, <<>>), JsonText(TRUE, <<>>)}
    ELSE {JsonText(TRUE, m) : m \in [1..n -> JsonMembers]}

ExpiresArgs == {NoStr, SomeStr(<<"3", "m">>), SomeStr(<<"m">>)}

NotBeforeArgs == {SomeStr(<<"7">>), SomeStr(<<"3", "m">>), SomeStr(<<"-", "3">>)}

FlagNames == {"issuer", "subject", "audience", "jwt_id", "not_before"}

\* the values flag f may take when the flags in F are the ones supplied
FlagArgs(f, F) ==
    IF f \notin F THEN {NoStr}
    ELSE IF f = "not_before" THEN NotBeforeArgs
    ELSE {SomeStr(v) : v \in ValueStrings}

\* algorithm, secret and key format of the encode runs
EncodeKeys == {<<"HS256", Literal(TextDoc("s1")), NoFmt>>}

InitEncode ==
    /\ pc = "enc_main"
    /\ clock = EncodeClock
    /\ \E nf \in 0..MaxClaimInputs, np \in 0..MaxClaimInputs, nj \in 0..MaxClaimInputs :
          /\ nf + np + nj <= MaxClaimInputs
          /\ \E F \in {G \in SUBSET FlagNames : Cardinality(G) = nf} :
                encCli \in
                    {EncodeArgs(key[1], NoStr, json, payload, expires, issuer, subject,
                                audience, jwt_id, not_before, no_iat, key[2], key[3]) :
                        key \in EncodeKeys,
                        json \in JsonArgs(nj),
                        payload \in [1..np -> PayloadArgs],
                        expires \in ExpiresArgs,
                        issuer \in FlagArgs("issuer", F),
                        subject \in FlagArgs("subject", F),
                        audience \in FlagArgs("audience", F),
                        jwt_id \in FlagArgs("jwt_id", F),
                        not_before \in FlagArgs("not_before", F),
                        no_iat \in BOOLEAN}
    /\ decCli = NoDecodeArgs
    /\ NoEncodeState
    /\ NoDecodeState
    /\ NoProcessOutput
    /\ NoTsState
    /\ NoKeyFormatState

NextEncode == UsageError \/ EncodeToken \/ PrintEncodedToken

SpecEncode == InitEncode /\ [][NextEncode]_vars

(***************************************************************************)
(* jwt decode on its own: the inputs                                       *)
(***************************************************************************)
KidA == <<"a">>

KidB == <<"b">>

KidC == <<"c">>

\* the clock of the decoding process, and claim times around it
DecodeClock == 5000

\* the keys that signed the tokens at hand
SigningKey(alg) ==
    IF alg \in HmacAlgs THEN [family |-> "hmac", der |-> TextDoc("s1")]
    ELSE IF alg \in RsaAlgs THEN [family |-> "rsa", der |-> DerDoc("rsa", "k1", TRUE)]
    ELSE [family |-> "ec", der |-> DerDoc("ec", "k1", TRUE)]

TokenAlgs == {"HS256", "HS384", "RS256", "ES256"}

TokenKids == {NoStr, SomeStr(KidB), SomeStr(KidC)}

TokenClaims ==
    {from_payloads(<<SomeItem(IAT, VNum(DecodeClock)), SomeItem(SUB, VStr(<<"x">>)),
                     SomeItem(EXP, VNum(DecodeClock + 1800))>>),
     from_payloads(<<SomeItem(IAT, VNum(DecodeClock))>>),
     from_payloads(<<SomeItem(EXP, VNum(DecodeClock - Leeway - 1))>>)}

SignedTokens ==
    {encode(create_header(alg, kid), cs, SigningKey(alg)).token :
        alg \in TokenAlgs, kid \in TokenKids, cs \in TokenClaims}

\* the same tokens with the signature part replaced
GarbageTokens == {[t EXCEPT !.sig = GarbageSignature] : t \in SignedTokens}

DecodeTokens == SignedTokens \cup GarbageTokens \cup {MalformedToken}

DecodeAlgs == {"HS256", "HS384", "RS256", "RS384", "ES256"}

JwkSetAB == JwksDoc(<<JwkDoc("rsa", "k2", FALSE, SomeStr(KidA)),
                      JwkDoc("rsa", "k1", FALSE, SomeStr(KidB)),
                      JwkDoc("rsa", "k2", FALSE, SomeStr(KidB))>>)

JwkSetEc == JwksDoc(<<JwkDoc("ec", "k1", FALSE, SomeStr(KidB)),
                      JwkDoc("ec", "k2", FALSE, SomeStr(KidA))>>)

DecodeSecrets ==
    {Literal(EmptyDoc),
     Literal(TextDoc("s1")),
     Literal(TextDoc("s2")),
     Literal(PemDoc("rsa", "k1", FALSE)),
     Literal(PemDoc("ec", "k1", FALSE)),
     Literal(JwkDoc("rsa", "k1", FALSE, NoStr)),
     Literal(JwkSetAB),
     FileRef("jwk", JwkSetAB),
     FileRef("jwk", JwkSetEc),
     FileRef("der", DerDoc("rsa", "k1", FALSE)),
     FileRef("txt", TextDoc("s1")),
     SecretRef(TRUE, "pem", FALSE, EmptyDoc)}

KeyFormats == {NoFmt, SomeFmt("pem"), SomeFmt("der"), SomeFmt("jwk"), SomeFmt("raw")}

InitDecode ==
    /\ pc = "dec_main"
    /\ clock = DecodeClock
    /\ encCli = NoEncodeArgs
    /\ decCli \in {DecodeArgs(jwt, alg, iso, secret, json, ignore_exp, fmt) :
                      jwt \in DecodeTokens, alg \in DecodeAlgs, iso \in BOOLEAN,
                      secret \in DecodeSecrets, json \in BOOLEAN,
                      ignore_exp \in BOOLEAN, fmt \in KeyFormats}
    /\ NoEncodeState
    /\ NoDecodeState
    /\ NoProcessOutput
    /\ NoTsState
    /\ NoKeyFormatState

NextDecode == DecodeToken \/ PrintDecodedToken

SpecDecode == InitDecode /\ [][NextDecode]_vars

(***************************************************************************)
(* The timestamp resolver on its own                                       *)
(***************************************************************************)
TsAlphabet == {"0", "3", "+", "-", " ", "m"}

TsStrings == StringsUpTo(TsAlphabet, MaxTsLen) \cup {DefaultExpires}

TsNows == {0, 5000}

InitTs ==
    /\ pc = "ts_call"
    /\ clock = 0
    /\ encCli = NoEncodeArgs
    /\ decCli = NoDecodeArgs
    /\ NoEncodeState
    /\ NoDecodeState
    /\ NoProcessOutput
    /\ tsVal \in {NoStr} \cup {SomeStr(s) : s \in TsStrings}
    /\ tsName \in {EXP, NBF}
    /\ tsNow \in TsNows
    /\ tsOut = NoItem
    /\ NoKeyFormatState

FromTimestamp ==
    /\ pc = "ts_call"
    /\ tsOut' = from_timestamp_with_name(tsVal, tsName, tsNow)
    /\ pc' = "ts_ret"
    /\ UNCHANGED <<clock, encVars, decVars, stdout, banner, exit_code,
                   tsVal, tsName, tsNow, fmtVars>>

NextTs == FromTimestamp

SpecTs == InitTs /\ [][NextTs]_vars

(***************************************************************************)
(* The choice of the key encoding on its own                               *)
(***************************************************************************)
\* the reference is '@' and a path, or a literal text, with any extension
\* ("" when it has none); both resolvers are given the same arguments
InitKeyFormat ==
    /\ pc = "kf_call"
    /\ clock = 0
    /\ \E file \in BOOLEAN, ext \in {"pem", "cer", "key", "der", "jwk", "txt", ""},
          doc \in {TextDoc("s1"), PemDoc("rsa", "k1", TRUE)},
          fmt \in KeyFormats, alg \in {"HS256", "RS256"} :
          /\ encCli = [NoEncodeArgs EXCEPT !.algorithm = alg, !.keyformat = fmt,
                                           !.secret = SecretRef(file, ext, TRUE, doc)]
          /\ decCli = [NoDecodeArgs EXCEPT !.algorithm = alg, !.keyformat = fmt,
                                           !.secret = SecretRef(file, ext, TRUE, doc)]
    /\ NoEncodeState
    /\ NoDecodeState
    /\ NoProcessOutput
    /\ NoTsState
    /\ NoKeyFormatState

\* the `let format = match formatopt` of both resolvers, on the same arguments
ChooseKeyFormat ==
    /\ pc = "kf_call"
    /\ encFormat' = EncodingKeyFormatOf(encCli.secret, encCli.keyformat)
    /\ decFormat' = KeyFormatOf(decCli.secret, decCli.keyformat)
    /\ pc' = "kf_ret"
    /\ UNCHANGED <<clock, encVars, decVars, stdout, banner, exit_code, tsVars>>

NextKeyFormat == ChooseKeyFormat

SpecKeyFormat == InitKeyFormat /\ [][NextKeyFormat]_vars

(***************************************************************************)
(* jwt encode, then jwt decode of the printed token                        *)
(***************************************************************************)
RoundEncodeAlgs == HmacAlgs \cup {"RS256"}

RoundPayloads == {<<>>, <<<<"a", "=", "7">>>>, <<EXP \o <<"=", "x">>>>}

\* no --exp, a duration, a timestamp long past, a timestamp with a leading
\* zero, and a text the validator rejects
RoundExpires ==
    {NoStr, SomeStr(<<"3", "m">>), SomeStr(<<"7">>), SomeStr(<<"0", "3">>),
     SomeStr(<<"m">>)}

RoundSecrets == {Literal(TextDoc("s1")), Literal(TextDoc("s2")), Literal(EmptyDoc)}

\* the decoding process starts at once, or when a token issued for three
\* minutes is at the end of the leeway, or one second later
RoundClocks ==
    {EncodeClock, EncodeClock + 180 + Leeway, EncodeClock + 180 + Leeway + 1}

InitRound ==
    /\ pc = "enc_main"
    /\ clock = EncodeClock
    /\ encCli \in
          {EncodeArgs(alg, kid, NoJson, payload, expires, NoStr, NoStr, NoStr, NoStr,
                      NoStr, no_iat, secret, NoFmt) :
              alg \in RoundEncodeAlgs,
              kid \in {NoStr, SomeStr(KidA)},
              payload \in RoundPayloads,
              expires \in RoundExpires,
              no_iat \in BOOLEAN,
              secret \in RoundSecrets \ {Literal(TextDoc("s2"))}}
    /\ decCli = NoDecodeArgs
    /\ NoEncodeState
    /\ NoDecodeState
    /\ NoProcessOutput
    /\ NoTsState
    /\ NoKeyFormatState

\* main, the decode arm: a second process is given the printed token
InvokeDecode ==
    /\ pc = "enc_exit"
    /\ stdout.jwt
    /\ \E alg \in HmacAlgs, secret \in RoundSecrets, ignore_exp \in BOOLEAN,
          fmt \in {NoFmt, SomeFmt("jwk")} :
          decCli' = DecodeArgs(stdout.text, alg, FALSE, secret, FALSE, ignore_exp, fmt)
    /\ clock' \in RoundClocks
    /\ pc' = "dec_main"
    /\ stdout' = NoOutput
    /\ banner' = ""
    /\ exit_code' = -1
    /\ UNCHANGED <<encVars, keyres, verified, validated, token_data, ofmt, tsVars, fmtVars>>

NextRound ==
    \/ UsageError
    \/ EncodeToken
    \/ PrintEncodedToken
    \/ InvokeDecode
    \/ DecodeToken
    \/ PrintDecodedToken

SpecRound == InitRound /\ [][NextRound]_vars

(***************************************************************************)
(* Properties of jwt decode                                                *)
(***************************************************************************)
\* decode_token has returned its triple
DecodeReturned == pc \in {"dec_print", "dec_exit"}

\* the signature part is a signature made over this header and payload
\* with the header's algorithm
IsSigned(jwt) ==
    /\ jwt.wf
    /\ jwt.sig.alg = jwt.header.alg
    /\ jwt.sig.header = jwt.header
    /\ jwt.sig.payload = jwt.payload

\* a token signed with X, decoded declaring Y # X with a non-empty secret
AlgorithmMismatch ==
    /\ DecodeReturned
    /\ IsSigned(decCli.jwt)
    /\ decCli.jwt.header.alg # decCli.algorithm
    /\ ~IsEmptySecret(decCli.secret)

\* C1 as stated: a token signed with X and decoded declaring Y # X with a
\* non-empty secret always yields the InvalidAlgorithm error, whatever the
\* secret and the key format
C1_AlwaysInvalidAlgorithm ==
    AlgorithmMismatch => validated = DataErr("InvalidAlgorithm")

\* C1 amended: such a decode never yields Ok; the result is InvalidAlgorithm
\* whenever key resolution produced a key, and otherwise it is the error key
\* resolution returned
C1_MismatchNeverOk ==
    AlgorithmMismatch =>
        /\ ~validated.ok
        /\ keyres.called
        /\ keyres.res.ok => validated = DataErr("InvalidAlgorithm")
        /\ ~keyres.res.ok => validated = DataErr(keyres.res.err)

C1_Witness ==
    /\ AlgorithmMismatch
    /\ keyres.res.ok
    /\ decCli.algorithm \in HmacAlgs
    /\ decCli.jwt.header.alg \in HmacAlgs
    /\ validated = DataErr("InvalidAlgorithm")

\* the claims as displayed: those read from the token without verification,
\* the numeric iat / nbf / exp rendered as dates when --iso8601 is given
DisplayedClaims(cli) ==
    LET cs == DeserializeClaims(cli.jwt.payload)
    IN  [k \in DOMAIN cs |->
            IF cli.iso_dates /\ k \in {IAT, NBF, EXP} /\ cs[k].t = "num"
            THEN VIso(cs[k].n) ELSE cs[k]]

C3_EmptySecretSkipsVerification ==
    (decCli.secret = Literal(EmptyDoc) /\ pc # "dec_main") =>
        /\ DecodeReturned
        /\ ~keyres.called
        /\ ~verified
        /\ validated.ok <=> decCli.jwt.wf
        /\ validated.err \notin {"InvalidSignature", "ExpiredSignature",
                                 "ImmatureSignature", "InvalidAlgorithm"}

C3_Witness ==
    /\ decCli.secret = Literal(EmptyDoc)
    /\ pc = "dec_exit"
    /\ decCli.jwt.wf
    /\ ~IsSigned(decCli.jwt)
    /\ decCli.jwt.header.alg # decCli.algorithm
    /\ EXP \notin DOMAIN decCli.jwt.payload
    /\ ~decCli.ignore_exp
    /\ validated.ok
    /\ exit_code = 0

\* decode with the JWK key format, a readable JWK-Set document and a token
\* that carries a kid
JwkSetLookup ==
    /\ keyres.called
    /\ decCli.jwt.wf
    /\ decCli.jwt.header.kid.some
    /\ (decCli.keyformat = SomeFmt("jwk")
        \/ (decCli.keyformat = NoFmt /\ decCli.secret.file /\ decCli.secret.ext = "jwk"))
    /\ decCli.secret.readable
    /\ decCli.secret.doc.kind = "jwks"

\* entry i is the first one whose kid is the token's kid
IsFirstMatch(i) ==
    LET entries == decCli.secret.doc.entries
        kid == decCli.jwt.header.kid
    IN  /\ i \in 1..Len(entries)
        /\ entries[i].kid = kid
        /\ \A j \in 1..(i - 1) : entries[j].kid # kid

NoMatch == \A i \in 1..Len(decCli.secret.doc.entries) : ~IsFirstMatch(i)

\* the verification key made from a JWK entry
KeyOfEntry(entry) ==
    [family |-> entry.fam, der |-> DerDoc(entry.fam, entry.id, entry.priv)]

AlgFamily(alg) ==
    IF alg \in HmacAlgs THEN "hmac" ELSE IF alg \in RsaAlgs THEN "rsa" ELSE "ec"

\* C6 as stated: the key used is the first entry whose kid equals the
\* token's kid, wherever it stands in the array; without such an entry key
\* resolution returns an error and no key
C6_KeyIsFirstKidEntry ==
    JwkSetLookup =>
        /\ \A i \in 1..Len(decCli.secret.doc.entries) :
              IsFirstMatch(i) =>
                  keyres.res = KeyOk(KeyOfEntry(decCli.secret.doc.entries[i]))
        /\ NoMatch => (~keyres.res.ok /\ ~keyres.res.panic)

\* C6 amended: with an RSA or ECDSA algorithm the key is made from the first
\* entry whose kid equals the token's kid, wherever it stands, when that
\* entry is a key of the algorithm's family, and no key is produced when it
\* is not; with an HMAC algorithm the key is the raw document; for every
\* algorithm, without a matching entry key resolution returns the
\* InvalidSignature error and no key
C6_FirstKidEntryForAsymmetric ==
    JwkSetLookup =>
        /\ \A i \in 1..Len(decCli.secret.doc.entries) :
              IsFirstMatch(i) =>
                  LET entry == decCli.secret.doc.entries[i]
                  IN  IF decCli.algorithm \in HmacAlgs
                      THEN keyres.res = from_secret(decCli.secret.doc)
                      ELSE IF entry.fam = AlgFamily(decCli.algorithm)
                      THEN keyres.res = KeyOk(KeyOfEntry(entry))
                      ELSE ~keyres.res.ok
        /\ NoMatch => keyres.res = KeyErr("InvalidSignature")

C6_Witness ==
    /\ JwkSetLookup
    /\ pc = "dec_exit"
    /\ decCli.algorithm = "RS256"
    /\ IsFirstMatch(2)
    /\ keyres.res = KeyOk(KeyOfEntry(decCli.secret.doc.entries[2]))
    /\ validated.ok

\* decode with an RSA or ECDSA algorithm, the JWK key format, a readable
\* JWK-Set document and a token whose header carries no kid
JwkSetWithoutKid ==
    /\ pc # "dec_main"
    /\ decCli.algorithm \in RsaAlgs \cup EcAlgs
    /\ KeyFormatOf(decCli.secret, decCli.keyformat) = "JWK"
    /\ decCli.secret.readable
    /\ decCli.secret.doc.kind = "jwks"
    /\ decCli.jwt.wf
    /\ ~decCli.jwt.header.kid.some

\* C12: with an RSA or ECDSA algorithm, the JWK key format, a JWK-Set
\* document and no kid in the token header, key resolution returns the
\* InvalidSignature error as its result; it does not panic and gives no key.
C12_NoKidReturnsInvalidSignature ==
    JwkSetWithoutKid =>
        /\ pc # "dec_panic"
        /\ keyres.called
        /\ keyres.res = KeyErr("InvalidSignature")

\* C13: for the HMAC algorithms key resolution depends only on the loaded
\* secret bytes: for every secret, key format and header kid, the encode
\* path and the decode path both succeed with the key made from exactly
\* the raw secret bytes.
C13_HmacKeyIsRawSecret ==
    (pc # "dec_main" /\ decCli.algorithm \in HmacAlgs
        /\ ~IsEmptySecret(decCli.secret) /\ decCli.secret.readable)
        => /\ encoding_key_from_secret(decCli.algorithm, decCli.secret,
                                       decCli.keyformat)
                 = from_secret(decCli.secret.doc)
           /\ keyres.called
           /\ keyres.res = from_secret(decCli.secret.doc)

\* key resolution was called and gave no key
KeyResolutionFailed == keyres.called /\ ~keyres.res.ok

\* C14 as stated: when key resolution fails during decode the command
\* aborts before producing any output; header and claims are not displayed.
C14_KeyErrorShowsNothing ==
    (pc \in {"dec_exit", "dec_panic"} /\ KeyResolutionFailed) => ~stdout.shown

\* C14: when key resolution returns an error, the error is the verification
\* result and the unverified header and claims are still displayed whenever
\* their extraction succeeded, with the error banner and exit status 1; the
\* command stops without any output only when key resolution panics.
C14_KeyErrorStillDisplays ==
    /\ (pc = "dec_exit" /\ KeyResolutionFailed) =>
          /\ ~keyres.res.panic
          /\ validated = DataErr(keyres.res.err)
          /\ banner = keyres.res.err
          /\ exit_code = 1
          /\ stdout.shown <=> decCli.jwt.wf
          /\ decCli.jwt.wf =>
                /\ stdout.header = decCli.jwt.header
                /\ stdout.claims = DisplayedClaims(decCli)
    /\ (pc = "dec_panic") =>
          /\ KeyResolutionFailed
          /\ keyres.res.panic
          /\ ~stdout.shown
          /\ exit_code = 101

C14_Witness ==
    /\ pc = "dec_exit"
    /\ KeyResolutionFailed
    /\ keyres.res = KeyErr("InvalidSignature")
    /\ decCli.jwt.wf
    /\ stdout.shown
    /\ stdout.claims = DisplayedClaims(decCli)
    /\ exit_code = 1


(***************************************************************************)
(* Properties of jwt encode                                                *)
(***************************************************************************)
\* encode_token returned: the claim set is built and the key is resolved
EncodeReturned == pc \in {"enc_print", "enc_exit"}

\* the name and the value text of a key=value argument
ArgName(p) == Split(p, "=")[1]

ArgValue(p) == Split(p, "=")[2]

\* C4: encode without --exp applies the default "+30 min": the claim set has
\* an exp claim equal to the encode-time now plus 1800.
C4_DefaultExpiryApplied ==
    (EncodeReturned /\ ~encCli.expires.some)
        => (EXP \in DOMAIN claims /\ claims[EXP] = VNum(clock + 1800))

\* a key=value argument or a member of the bulk JSON object is named iat
SuppliesIat(cli) ==
    \/ \E i \in 1..Len(cli.payload) : ArgName(cli.payload[i]) = IAT
    \/ \E i \in 1..Len(cli.json.members) : cli.json.members[i].name = IAT

\* with --no-iat there is no iat claim, without it iat is the encode-time now
IatFollowsFlag ==
    IF encCli.no_iat THEN IAT \notin DOMAIN claims
    ELSE IAT \in DOMAIN claims /\ claims[IAT] = VNum(clock)

\* C7 as stated: iat follows --no-iat for every combination of the other
\* inputs, key=value claims and the bulk JSON payload included.
C7_IatFollowsFlagAlways == EncodeReturned => IatFollowsFlag

\* C7: when no key=value claim and no member of the bulk JSON object is named
\* iat, the claim set has no iat with --no-iat and iat = now without it.
C7_IatFollowsFlagUnlessSupplied ==
    (EncodeReturned /\ ~SuppliesIat(encCli)) => IatFollowsFlag

C7_Witness ==
    /\ pc = "enc_exit"
    /\ encCli.no_iat
    /\ Len(encCli.payload) > 0
    /\ Len(encCli.json.members) > 0
    /\ ~SuppliesIat(encCli)
    /\ IAT \notin DOMAIN claims

\* the names of the seven standard sources, in the order of the claim
StandardOrder == <<IAT, EXP, ISS, SUB, AUD, JTI, NBF>>

\* the sources are laid out in the order iat, exp, iss, sub, aud, jti, nbf,
\* the key=value arguments in command-line order, the bulk JSON entries
SourcesInOrder ==
    LET np == Len(encCli.payload)
        members == encCli.json.members
    IN  /\ Len(maybe_payloads) >= 7 + np
        /\ \A i \in 1..7 :
              maybe_payloads[i].some => maybe_payloads[i].name = StandardOrder[i]
        /\ \A i \in 1..np :
              /\ maybe_payloads[7 + i].some
              /\ maybe_payloads[7 + i].name = ArgName(encCli.payload[i])
        /\ \A k \in (7 + np + 1)..Len(maybe_payloads) :
              /\ maybe_payloads[k].some
              /\ \E m \in 1..Len(members) :
                    /\ members[m].name = maybe_payloads[k].name
                    /\ members[m].value = maybe_payloads[k].value
                    /\ \A n \in (m + 1)..Len(members) : members[n].name # members[m].name
        /\ \A m \in 1..Len(members) :
              \E k \in (7 + np + 1)..Len(maybe_payloads) :
                  maybe_payloads[k].name = members[m].name

\* source i supplies claim name k
Supplies(i, k) == maybe_payloads[i].some /\ maybe_payloads[i].name = k

\* C9: the claim set is the last-write-wins merge of the sources in the order
\* iat, exp, iss, sub, aud, jti, nbf, key=value claims, bulk JSON entries:
\* every supplied name is present with the value of its latest source.
C9_LastWriteWins ==
    EncodeReturned =>
        /\ SourcesInOrder
        /\ \A i \in 1..Len(maybe_payloads) :
              maybe_payloads[i].some => maybe_payloads[i].name \in DOMAIN claims
        /\ \A k \in DOMAIN claims :
              \E i \in 1..Len(maybe_payloads) :
                  /\ Supplies(i, k)
                  /\ claims[k] = maybe_payloads[i].value
                  /\ \A j \in (i + 1)..Len(maybe_payloads) : ~Supplies(j, k)

C9_Witness ==
    /\ pc = "enc_exit"
    /\ \E i, j \in 1..Len(maybe_payloads) :
          /\ i < j
          /\ j > 7
          /\ Supplies(i, maybe_payloads[j].name)
          /\ maybe_payloads[i].value # maybe_payloads[j].value
          /\ claims[maybe_payloads[j].name] = maybe_payloads[j].value

\* the text parses neither as JSON nor as a quoted JSON string
Unparsable(v) == ~from_str(v).ok /\ ~from_str(<<"\"">> \o v \o <<"\"">>).ok

\* an unparsable value is given through a key=value claim or a string flag
HasUnparsableValue(cli) ==
    \/ \E i \in 1..Len(cli.payload) : Unparsable(ArgValue(cli.payload[i]))
    \/ \E f \in {cli.issuer, cli.subject, cli.audience, cli.jwt_id} :
          f.some /\ Unparsable(f.s)

\* C10: a claim value that fails both parses is dropped and encode still
\* completes with a token, for key=value claims and for the iss/sub/aud/jti
\* flags alike; the command never aborts or panics.
C10_UnparsableValueDropped ==
    (pc # "enc_main" /\ ValidEncodeArgs(encCli) /\ HasUnparsableValue(encCli)
        /\ (encCli.json.some => encCli.json.obj))
        => /\ pc # "enc_panic"
           /\ pc = "enc_exit" => (stdout.jwt /\ exit_code = 0)


(***************************************************************************)
(* Properties of the timestamp resolver                                    *)
(***************************************************************************)
\* C8: a relative duration of d seconds at reference time T yields the JSON
\* integer T + d, never a string, and a bare non-negative integer string n
\* yields the JSON integer n, whatever T is.
C8_DurationOrIntegerYieldsNumber ==
    (pc = "ts_ret" /\ tsVal.some) =>
        /\ AllDigits(tsVal.s) => tsOut = SomeItem(tsName, VNum(Dec(tsVal.s)))
        /\ (~AllDigits(tsVal.s) /\ parse_duration(tsVal.s).ok)
              => tsOut = SomeItem(tsName, VNum(tsNow + parse_duration(tsVal.s).n))

\* C11: an input that is neither a bare non-negative integer nor a parsable
\* duration yields no claim, so every exp or nbf claim produced is a
\* non-negative integer, also for inputs is_timestamp_or_duration accepts.
C11_UnparsableTimestampOmitted ==
    (pc = "ts_ret" /\ tsVal.some) =>
        /\ (~AllDigits(tsVal.s) /\ ~parse_duration(tsVal.s).ok) => tsOut = NoItem
        /\ tsOut.some => (tsOut.value.t = "num" /\ tsOut.value.n >= 0)

(***************************************************************************)
(* Properties of encode followed by decode                                 *)
(***************************************************************************)
\* decode_token returned for a token that encode printed, and was given the
\* algorithm and the secret that encode was given, an HMAC algorithm
SameKeyRoundTrip ==
    /\ pc \in {"dec_print", "dec_exit"}
    /\ encCli.algorithm \in HmacAlgs
    /\ decCli.algorithm = encCli.algorithm
    /\ decCli.secret = encCli.secret

\* the verification result is Ok and holds the claim set that was encoded
VerifiedSameClaims == validated.ok /\ validated.data.claims = claims

\* C5 as stated: for every HMAC algorithm, claim set and secret, decoding the
\* encoded token with the same secret and algorithm verifies and yields the
\* encoded claim set.
C5_RoundTripAlways == SameKeyRoundTrip => VerifiedSameClaims

\* the expiry check passes: it is switched off, or the claim set holds a
\* non-negative integer exp not earlier than the decode-time now minus leeway
ExpiryAccepted ==
    \/ decCli.ignore_exp
    \/ /\ EXP \in DOMAIN claims
       /\ claims[EXP].t = "num"
       /\ claims[EXP].n >= 0
       /\ claims[EXP].n >= clock - Leeway

\* the decode key format is JWK and the token header carries a kid
JwkLookup ==
    /\ KeyFormatOf(decCli.secret, decCli.keyformat) = "JWK"
    /\ decCli.jwt.header.kid.some

\* C5: for every HMAC algorithm, decoding the encoded token with the same
\* secret and algorithm verifies and yields the encoded claim set when the
\* secret is empty, or when the expiry check passes and the key is not
\* looked up in a JWK document by the header's kid.
C5_RoundTripWhenExpiryAccepted ==
    (SameKeyRoundTrip
        /\ (IsEmptySecret(decCli.secret) \/ (ExpiryAccepted /\ ~JwkLookup)))
        => VerifiedSameClaims

C5_Witness ==
    /\ pc = "dec_exit"
    /\ SameKeyRoundTrip
    /\ ~IsEmptySecret(decCli.secret)
    /\ ~decCli.ignore_exp
    /\ clock > EncodeClock
    /\ <<"a">> \in DOMAIN claims
    /\ VerifiedSameClaims
    /\ exit_code = 0


(***************************************************************************)
(* Properties of the choice of the key encoding                            *)
(***************************************************************************)
\* the encoding the flag names, or the one inferred from the reference
StatedEncoding(secret, formatopt) ==
    IF formatopt = SomeFmt("pem") THEN "PEM"
    ELSE IF formatopt = SomeFmt("der") THEN "DER"
    ELSE IF formatopt = SomeFmt("jwk") THEN "JWK"
    ELSE IF ~secret.file THEN "PEM"
    ELSE IF secret.ext = "der" THEN "DER"
    ELSE IF secret.ext = "jwk" THEN "JWK"
    ELSE "PEM"

\* C15: both resolvers choose the same encoding for the same secret
\* reference and format flag: a flag pem/der/jwk decides whatever the
\* reference is; with no flag a file reference gets PEM for pem/cer/key,
\* DER for der, JWK for jwk, PEM for anything else, and a literal gets PEM.
C15_SameEncodingChoice ==
    (pc = "kf_ret") =>
        /\ encFormat = decFormat
        /\ (~decCli.keyformat.some \/ decCli.keyformat.s \in {"pem", "der", "jwk"})
              => decFormat = StatedEncoding(decCli.secret, decCli.keyformat)

C15_Witness ==
    /\ pc = "kf_ret"
    /\ decCli.secret.file
    /\ decCli.secret.ext = "der"
    /\ decCli.keyformat = SomeFmt("jwk")
    /\ encFormat = "JWK"
    /\ decFormat = "JWK"

====
